---- MODULE Spec2Model ----
(***************************************************************************)
(* Model of the planarity-testing service: the Kuratowski reducer          *)
(* (get_kuratowski_minor), the classifier (get_kuratowski_type), the SVG   *)
(* renderer (graph_to_svg) and the /planarity endpoint of the two entry    *)
(* points, src/api/app.py (SVG) and src/app.py (Matplotlib).               *)
(*                                                                         *)
(* A graph is a record [nodes, edges]: nodes is the sequence of node       *)
(* identifiers in networkx's iteration (insertion) order, edges a set of   *)
(* unordered pairs {u, v}.  A self-loop would be the singleton {u}.        *)
(***************************************************************************)
EXTENDS Integers, Sequences, FiniteSets, TLC

VARIABLES
    pc,                \* position of the running function
    \* get_kuratowski_minor
    subdivision_graph, \* its argument
    G_minor,           \* the working copy
    iters,             \* number of loop iterations that found a degree-2 node
    run,               \* 1: first call, 2: the call on the first call's result
    first,             \* the first call: its argument and the graph it returned
    family,            \* how the argument was built (kind and branch nodes)
    \* get_kuratowski_type
    graph,             \* its argument
    labels,            \* the labels returned so far, one per call
    \* graph_to_svg
    svg_args,          \* its arguments G, pos, highlight_edges
    viewBox,           \* the emitted viewBox <<vb_min_x, vb_min_y, vb_w, vb_h>>
    lines,             \* the <line> elements emitted, in order
    circles,           \* the <circle> elements emitted, in order
    \* the /planarity endpoint
    entry,             \* the entry point serving the request
    data,              \* the request's JSON payload
    check,             \* what nx.check_planarity returned
    ret,               \* the tuple returned by visualize_planarity_test
    response           \* the HTTP response

minorVars == <<subdivision_graph, G_minor, iters, run, first, family>>
typeVars == <<graph, labels>>
svgVars == <<svg_args, viewBox, lines, circles>>
apiVars == <<entry, data, check, ret, response>>
vars == <<pc, minorVars, typeVars, svgVars, apiVars>>

----------------------------------------------------------------------------
(* Bounds of the model *)

\* general simple graphs have the nodes 1..n for n up to MaxGraphNodes
MaxGraphNodes == 5
\* K5 / K3,3 subdivisions have up to MaxSubdiv inserted degree-2 vertices
MaxSubdiv == 2
\* cycles C_n for 3 <= n <= MaxCycle
MaxCycle == 7

----------------------------------------------------------------------------
(* networkx.Graph primitives used by the source *)

EmptyGraph == [nodes |-> <<>>, edges |-> {}]

Range(s) == {s[i] : i \in 1..Len(s)}

RECURSIVE SortedSeq(_)
SortedSeq(S) ==
    IF S = {} THEN <<>>
    ELSE LET m == CHOOSE x \in S : \A y \in S : x <= y
         IN  <<m>> \o SortedSeq(S \ {m})

AllPairs(S) == {{a, b} : a \in S, b \in S} \ {{a} : a \in S}

NodesOf(E) == UNION E

number_of_nodes(G) == Len(G.nodes)

\* G.neighbors(u): a self-loop makes u its own neighbour
neighbors(G, u) == {v \in Range(G.nodes) : {u, v} \in G.edges}

\* G.degree(u): a self-loop counts twice
degree(G, u) ==
    Cardinality(neighbors(G, u)) + (IF {u} \in G.edges THEN 1 ELSE 0)

has_edge(G, a, b) == {a, b} \in G.edges

add_edge(G, a, b) ==
    [nodes |-> G.nodes
                 \o (IF a \in Range(G.nodes) THEN <<>> ELSE <<a>>)
                 \o (IF b \in Range(G.nodes) \/ b = a THEN <<>> ELSE <<b>>),
     edges |-> G.edges \cup {{a, b}}]

remove_node(G, u) ==
    [nodes |-> SelectSeq(G.nodes, LAMBDA n : n # u),
     edges |-> {e \in G.edges : u \notin e}]

isolates(G) == {n \in Range(G.nodes) : degree(G, n) = 0}

remove_nodes_from(G, S) ==
    [nodes |-> SelectSeq(G.nodes, LAMBDA n : n \notin S),
     edges |-> {e \in G.edges : e \cap S = {}}]

----------------------------------------------------------------------------
(* get_kuratowski_minor *)

\* degree_two_nodes = [n for n, d in dict(G_minor.degree()).items() if d == 2]
degree_two_nodes(G) == SelectSeq(G.nodes, LAMBDA n : degree(G, n) = 2)

\* A contraction that forgets to reconnect the two neighbours.
ContractNoBypass(G, u) ==
    IF Cardinality(neighbors(G, u)) = 2 THEN remove_node(G, u) ELSE G

\* A contraction that removes u only when it added the bypass edge.
ContractKeepNode(G, u) ==
    LET nb == neighbors(G, u) IN
    IF Cardinality(nb) = 2
    THEN LET v1 == CHOOSE v \in nb : TRUE
             v2 == CHOOSE v \in nb : v # v1
         IN  IF ~has_edge(G, v1, v2)
             THEN remove_node(add_edge(G, v1, v2), u)
             ELSE G
    ELSE G

\* The body of one loop iteration for the chosen degree-2 node u:
\* neighbors = list(G_minor.neighbors(u)); if len(neighbors) == 2: ...
ContractNode(G, u) ==
    LET nb == neighbors(G, u) IN
    IF Cardinality(nb) = 2
    THEN LET v1 == CHOOSE v \in nb : TRUE
             v2 == CHOOSE v \in nb : v # v1
             G1 == IF v1 # v2 /\ ~has_edge(G, v1, v2)
                   THEN add_edge(G, v1, v2)
                   ELSE G
         IN  remove_node(G1, u)
    ELSE G

\* Isolated-node removal that removes nothing.
KeepIsolates(G) == G

\* G_minor.remove_nodes_from(list(nx.isolates(G_minor)))
RemoveIsolated(G) == remove_nodes_from(G, isolates(G))

\* The whole function, as the value it returns.
RECURSIVE get_kuratowski_minor(_)
get_kuratowski_minor(G) ==
    IF degree_two_nodes(G) = <<>>
    THEN RemoveIsolated(G)
    ELSE get_kuratowski_minor(ContractNode(G, Head(degree_two_nodes(G))))

----------------------------------------------------------------------------
(* Input families of the reducer *)

GraphOn(S, E) == [nodes |-> SortedSeq(S), edges |-> E]

K33Edges(A, B) == {{a, b} : a \in A, b \in B}

\* insert one new degree-2 vertex w of pool into one edge of E
Subdivide(E, pool) ==
    {(E \ {e}) \cup {{v, w} : v \in e} : e \in E, w \in pool \ NodesOf(E)}

\* S and everything reached from S by at most k insertions
RECURSIVE Subdivisions(_, _, _)
Subdivisions(S, pool, k) ==
    IF k = 0 \/ S = {} THEN S
    ELSE S \cup Subdivisions(UNION {Subdivide(E, pool) : E \in S}, pool, k - 1)

\* K5 on the branch nodes 1..5; the inserted vertices are named 6, 7, ... in
\* every way, so they are met in every relative iteration order
K5Family ==
    {[kind |-> "K5", parts |-> <<1..5>>, edges |-> E] :
        E \in Subdivisions({AllPairs(1..5)}, 6..(5 + MaxSubdiv), MaxSubdiv)}

\* K3,3 on the branch nodes {1,2,3} and {4,5,6}, inserted vertices 7, 8, ...
K33Family ==
    {[kind |-> "K33", parts |-> <<1..3, 4..6>>, edges |-> E] :
        E \in Subdivisions({K33Edges(1..3, 4..6)}, 7..(6 + MaxSubdiv), MaxSubdiv)}

\* the cycle through the nodes of sequence s, in that order
CycleEdges(s) ==
    {{s[i], s[(i % Len(s)) + 1]} : i \in 1..Len(s)}

RECURSIVE Perms(_)
Perms(S) ==
    IF S = {} THEN {<<>>}
    ELSE UNION {{<<x>> \o p : p \in Perms(S \ {x})} : x \in S}

\* every cycle on the nodes 1..n (each starts at node 1), 3 <= n <= MaxCycle
CycleFamily ==
    UNION {{CycleEdges(<<1>> \o p) : p \in Perms(2..n)} : n \in 3..MaxCycle}

----------------------------------------------------------------------------
(* The reducer as a process: one step per loop iteration *)

MinorIdle ==
    /\ subdivision_graph = EmptyGraph
    /\ G_minor = EmptyGraph
    /\ iters = 0
    /\ run = 0
    /\ first = [arg |-> EmptyGraph, result |-> EmptyGraph]
    /\ family = [kind |-> "none", parts |-> <<>>]

TypeIdle == graph = EmptyGraph /\ labels = <<>>

SvgIdle ==
    /\ svg_args = [G |-> EmptyGraph, pos |-> <<>>, highlight_edges |-> {}]
    /\ viewBox = <<>>
    /\ lines = <<>>
    /\ circles = <<>>

ApiIdle ==
    entry = "none" /\ data = <<>> /\ check = <<>> /\ ret = <<>> /\ response = <<>>

\* no call is running
InitMinor ==
    /\ MinorIdle /\ TypeIdle /\ SvgIdle /\ ApiIdle
    /\ pc = "idle"

\* the call's argument is g, built as fam says
StartMinor(fam, g) ==
    /\ subdivision_graph' = g
    /\ G_minor' = g
    /\ family' = fam

\* get_kuratowski_minor is called (G_minor = subdivision_graph.copy()) on a
\* simple graph on the nodes 1..n, n <= MaxGraphNodes, on a subdivision of
\* K5 or K3,3, or on a cycle
CallMinor ==
    /\ pc = "idle"
    /\ \/ \E n \in 0..MaxGraphNodes : \E E \in SUBSET AllPairs(1..n) :
             StartMinor([kind |-> "general", parts |-> <<>>], GraphOn(1..n, E))
       \/ \E f \in K5Family \cup K33Family :
             StartMinor([kind |-> f.kind, parts |-> f.parts],
                        GraphOn(NodesOf(f.edges), f.edges))
       \/ \E E \in CycleFamily :
             StartMinor([kind |-> "cycle", parts |-> <<>>], GraphOn(NodesOf(E), E))
    /\ pc' = "loop"
    /\ iters' = 0
    /\ run' = 1
    /\ UNCHANGED <<first, typeVars, svgVars, apiVars>>

\* an iteration that finds a degree-2 node: u = degree_two_nodes[0]
Contract ==
    /\ pc = "loop"
    /\ degree_two_nodes(G_minor) # <<>>
    /\ G_minor' = ContractNode(G_minor, Head(degree_two_nodes(G_minor)))
    /\ iters' = iters + 1
    /\ UNCHANGED <<pc, subdivision_graph, run, first, family, typeVars, svgVars, apiVars>>

\* if not degree_two_nodes: break
ExitLoop ==
    /\ pc = "loop"
    /\ degree_two_nodes(G_minor) = <<>>
    /\ pc' = "isolates"
    /\ UNCHANGED <<subdivision_graph, G_minor, iters, run, first, family, typeVars, svgVars, apiVars>>

\* remove the isolated nodes and return
RemoveIsolates ==
    /\ pc = "isolates"
    /\ G_minor' = RemoveIsolated(G_minor)
    /\ pc' = "done"
    /\ UNCHANGED <<subdivision_graph, iters, run, first, family, typeVars, svgVars, apiVars>>

\* the caller applies the function once more, to the graph it returned
Rerun ==
    /\ pc = "done"
    /\ run = 1
    /\ first' = [arg |-> subdivision_graph, result |-> G_minor]
    /\ subdivision_graph' = G_minor
    /\ G_minor' = G_minor
    /\ iters' = 0
    /\ run' = 2
    /\ pc' = "loop"
    /\ UNCHANGED <<family, typeVars, svgVars, apiVars>>

NextMinor == CallMinor \/ Contract \/ ExitLoop \/ RemoveIsolates \/ Rerun

SpecMinor == InitMinor /\ [][NextMinor]_vars

----------------------------------------------------------------------------
(* Properties of the reducer *)

\* C1: on every finite simple graph without self-loops the contraction loop
\* terminates: each iteration that finds a degree-2 node removes exactly one
\* node (the iterations made so far plus the nodes left make up the nodes of
\* the argument), so the loop makes at most |V| iterations before it is left.
C1_LoopTerminates ==
    /\ [](/\ pc \in {"loop", "isolates"} =>
              iters + number_of_nodes(G_minor) = number_of_nodes(subdivision_graph)
          /\ iters <= number_of_nodes(subdivision_graph))
    /\ [][pc = "loop" /\ pc' = "loop" =>
              number_of_nodes(G_minor') = number_of_nodes(G_minor) - 1]_vars

\* a first call that made four iterations and has left the loop
C1_Witness ==
    /\ pc = "isolates" /\ run = 1 /\ iters >= 4
    /\ iters + number_of_nodes(G_minor) = number_of_nodes(subdivision_graph)

\* C2: the returned graph has no node of degree exactly 2 and no isolated
\* node, and the function applied to its own result returns the same node
\* set and the same edge set.
C2_NoDegreeTwoIdempotent ==
    pc = "done" =>
        /\ \A n \in Range(G_minor.nodes) : degree(G_minor, n) \notin {0, 2}
        /\ run = 2 =>
              /\ Range(G_minor.nodes) = Range(first.result.nodes)
              /\ G_minor.edges = first.result.edges

\* the second call has returned, after a first call that changed its
\* argument by contraction and by removing an isolated node
C2_Witness ==
    /\ pc = "done" /\ run = 2
    /\ first.arg.edges # first.result.edges
    /\ isolates(first.arg) # {}
    /\ first.result.nodes # <<>>
    /\ G_minor.edges = first.result.edges

\* C3: a subdivision of K5 is reduced to the K5 on its five branch nodes
\* (every pair connected), a subdivision of K3,3 to the K3,3 on its six
\* branch nodes (every cross pair connected, nothing else); K5 itself and
\* K5 with one subdivided edge are cases of this.
C3_SubdivisionReducesToMinor ==
    pc = "done" =>
        /\ family.kind = "K5" =>
              /\ Range(G_minor.nodes) = family.parts[1]
              /\ G_minor.edges = AllPairs(family.parts[1])
        /\ family.kind = "K33" =>
              /\ Range(G_minor.nodes) = family.parts[1] \cup family.parts[2]
              /\ G_minor.edges = K33Edges(family.parts[1], family.parts[2])

\* a K3,3 subdivision with an inserted vertex has been reduced to K3,3
C3_Witness ==
    /\ pc = "done" /\ run = 1 /\ family.kind = "K33"
    /\ number_of_nodes(subdivision_graph) > 6
    /\ number_of_nodes(G_minor) = 6
    /\ G_minor.edges = K33Edges(family.parts[1], family.parts[2])

\* C10 as stated: a cycle C_n is left with isolated nodes only by the loop,
\* and the returned graph is the empty graph.
C10_CycleCollapsesToEmpty ==
    family.kind = "cycle" =>
        /\ pc = "isolates" => isolates(G_minor) = Range(G_minor.nodes)
        /\ pc = "done" => G_minor = EmptyGraph

\* C10 amended: a cycle C_n (n >= 3) is contracted in n - 2 iterations to
\* two nodes joined by one edge; no isolated node arises, and the returned
\* graph is that single edge.
C10_CycleCollapsesToEdge ==
    family.kind = "cycle" =>
        /\ pc = "isolates" =>
              /\ isolates(G_minor) = {}
              /\ run = 1 => iters = number_of_nodes(subdivision_graph) - 2
        /\ pc = "done" =>
              /\ number_of_nodes(G_minor) = 2
              /\ Cardinality(G_minor.edges) = 1
              /\ \A n \in Range(G_minor.nodes) : degree(G_minor, n) = 1

\* a cycle of at least five nodes has been reduced
C10_Witness ==
    /\ family.kind = "cycle" /\ pc = "done" /\ run = 1
    /\ number_of_nodes(subdivision_graph) >= 5
    /\ \A n \in Range(subdivision_graph.nodes) : degree(subdivision_graph, n) = 2
    /\ number_of_nodes(G_minor) = 2

----------------------------------------------------------------------------
(* The contraction loop with a free choice of the degree-2 node: the loop   *)
(* of get_kuratowski_minor with u any element of degree_two_nodes instead  *)
(* of degree_two_nodes[0], run on the subdivisions of K5 and K3,3.         *)

\* get_kuratowski_minor is called on a subdivision of K5 or K3,3
CallSubdivision ==
    /\ pc = "idle"
    /\ \E f \in K5Family \cup K33Family :
          StartMinor([kind |-> f.kind, parts |-> f.parts],
                     GraphOn(NodesOf(f.edges), f.edges))
    /\ pc' = "loop"
    /\ iters' = 0
    /\ run' = 1
    /\ UNCHANGED <<first, typeVars, svgVars, apiVars>>

\* an iteration that finds degree-2 nodes and contracts any one of them
ContractAny ==
    /\ pc = "loop"
    /\ \E u \in Range(degree_two_nodes(G_minor)) :
          G_minor' = ContractNode(G_minor, u)
    /\ iters' = iters + 1
    /\ UNCHANGED <<pc, subdivision_graph, run, first, family, typeVars, svgVars, apiVars>>

NextAnyOrder == CallSubdivision \/ ContractAny \/ ExitLoop \/ RemoveIsolates

SpecAnyOrder == InitMinor /\ [][NextAnyOrder]_vars

\* the K5 or K3,3 on the branch nodes of the subdivision being reduced
BranchEdges ==
    IF family.kind = "K5" THEN AllPairs(family.parts[1])
    ELSE K33Edges(family.parts[1], family.parts[2])

\* C12: when the loop may contract any degree-2 node, every run on a
\* subdivision of K5 (K3,3) ends, after as many iterations as there are
\* inserted vertices, with the K5 (K3,3) on the branch nodes, whatever the
\* choices; and in every graph met on the way the contractions of two
\* distinct degree-2 nodes commute, and the first-in-order reduction of the
\* graph gives that same K5 (K3,3).
C12_AnyChoiceSameMinor ==
    pc \in {"loop", "isolates", "done"} =>
        /\ pc = "loop" =>
              /\ get_kuratowski_minor(G_minor).edges = BranchEdges
              /\ \A u, v \in Range(degree_two_nodes(G_minor)) :
                    u # v =>
                        /\ degree(ContractNode(G_minor, u), v) = 2
                        /\ ContractNode(ContractNode(G_minor, u), v)
                             = ContractNode(ContractNode(G_minor, v), u)
        /\ pc \in {"isolates", "done"} =>
              /\ G_minor.edges = BranchEdges
              /\ Range(G_minor.nodes) = NodesOf(BranchEdges)
              /\ iters = number_of_nodes(subdivision_graph) - Cardinality(NodesOf(BranchEdges))

\* a contraction has been made and the degree-2 node that comes first in
\* the iteration order of the argument is still there: a node other than
\* the first was chosen, and the first is left to be contracted next
C12_Witness ==
    /\ pc = "loop" /\ iters >= 1
    /\ family.kind = "K33"
    /\ Head(degree_two_nodes(subdivision_graph)) \in Range(G_minor.nodes)
    /\ degree(G_minor, Head(degree_two_nodes(subdivision_graph))) = 2

----------------------------------------------------------------------------
(* get_kuratowski_type and the networkx functions it calls *)

\* the node counts the classifier tests for
K5Size == 5
K33Size == 6

\* is_complete_graph_custom
is_complete_graph_custom(G) ==
    IF number_of_nodes(G) = 0 THEN TRUE
    ELSE \A i \in 1..Len(G.nodes) : degree(G, G.nodes[i]) = number_of_nodes(G) - 1

\* nx.bipartite.color, inner loop: colour the component of the start node
\* from the stack `queue` (queue.pop() takes the last element); a neighbour
\* that already has the colour of v raises NetworkXError
RECURSIVE ColorFrom(_, _, _)
ColorFrom(G, color, queue) ==
    IF queue = <<>> THEN [ok |-> TRUE, color |-> color]
    ELSE LET v == queue[Len(queue)]
             rest == SubSeq(queue, 1, Len(queue) - 1)
             nb == neighbors(G, v)
             new == nb \ DOMAIN color
         IN  IF \E w \in nb : w \in DOMAIN color /\ color[w] = color[v]
             THEN [ok |-> FALSE, color |-> color]
             ELSE ColorFrom(G, color @@ [w \in new |-> 1 - color[v]],
                            rest \o SelectSeq(G.nodes, LAMBDA n : n \in new))

\* nx.bipartite.color, outer loop over the nodes in iteration order: a node
\* not yet coloured and not isolated starts a component with colour 1
RECURSIVE ColorNodes(_, _, _)
ColorNodes(G, i, color) ==
    IF i > Len(G.nodes) THEN [ok |-> TRUE, color |-> color]
    ELSE LET n == G.nodes[i] IN
         IF n \in DOMAIN color \/ neighbors(G, n) = {}
         THEN ColorNodes(G, i + 1, color)
         ELSE LET r == ColorFrom(G, color @@ (n :> 1), <<n>>)
              IN  IF r.ok THEN ColorNodes(G, i + 1, r.color) ELSE r

\* nx.bipartite.color: isolated nodes get colour 0 at the end
Color(G) ==
    LET r == ColorNodes(G, 1, <<>>)
    IN  IF r.ok
        THEN [ok |-> TRUE, color |-> r.color @@ [n \in isolates(G) |-> 0]]
        ELSE r

\* nx.is_bipartite: whether color() raised
is_bipartite(G) == Color(G).ok

\* the nodes reached from the nodes of S
RECURSIVE Reach(_, _)
Reach(G, S) ==
    LET T == S \cup UNION {neighbors(G, v) : v \in S}
    IN  IF T = S THEN S ELSE Reach(G, T)

\* nx.is_connected (it raises on the graph with no nodes)
is_connected(G) ==
    /\ G.nodes # <<>>
    /\ Reach(G, {G.nodes[1]}) = Range(G.nodes)

\* a bipartition read off the colouring of every component, connected or
\* not (networkx before the AmbiguousSolution check)
BipartiteSetsAnyGraph(G) ==
    LET c == Color(G) IN
    IF ~c.ok THEN [ok |-> FALSE, X |-> {}, Y |-> {}]
    ELSE [ok |-> TRUE,
          X |-> {n \in Range(G.nodes) : c.color[n] = 1},
          Y |-> {n \in Range(G.nodes) : c.color[n] = 0}]

\* nx.bipartite.sets: raises AmbiguousSolution on a disconnected graph
\* (ok = FALSE: the caller's try/except passes); otherwise X holds the nodes
\* coloured 1, Y the others
bipartite_sets(G) ==
    IF ~is_connected(G) THEN [ok |-> FALSE, X |-> {}, Y |-> {}]
    ELSE LET c == Color(G) IN
         IF ~c.ok THEN [ok |-> FALSE, X |-> {}, Y |-> {}]
         ELSE [ok |-> TRUE,
               X |-> {n \in Range(G.nodes) : c.color[n] = 1},
               Y |-> {n \in Range(G.nodes) : c.color[n] = 0}]

\* the second rule of get_kuratowski_type: the try block returned "K_3,3"
IsK33(G) ==
    /\ number_of_nodes(G) = K33Size
    /\ is_bipartite(G)
    /\ LET p == bipartite_sets(G)
       IN  p.ok /\ Cardinality(p.X) = 3 /\ Cardinality(p.Y) = 3

\* a classifier that tests the subdivision rules before the exact ones
TypeSubdivisionFirst(G) ==
    LET num_nodes == number_of_nodes(G) IN
    IF num_nodes >= K5Size /\ is_complete_graph_custom(G) THEN "K_5 Subdivision"
    ELSE IF num_nodes >= K33Size /\ is_bipartite(G) THEN "K_3,3 Subdivision"
    ELSE IF num_nodes = K5Size /\ is_complete_graph_custom(G) THEN "K_5"
    ELSE IF IsK33(G) THEN "K_3,3"
    ELSE "Kuratowski Minor"

get_kuratowski_type(G) ==
    LET num_nodes == number_of_nodes(G) IN
    IF num_nodes = K5Size /\ is_complete_graph_custom(G) THEN "K_5"
    ELSE IF IsK33(G) THEN "K_3,3"
    ELSE IF num_nodes >= K5Size /\ is_complete_graph_custom(G) THEN "K_5 Subdivision"
    ELSE IF num_nodes >= K33Size /\ is_bipartite(G) THEN "K_3,3 Subdivision"
    ELSE "Kuratowski Minor"

Labels == {"K_5", "K_3,3", "K_5 Subdivision", "K_3,3 Subdivision", "Kuratowski Minor"}

----------------------------------------------------------------------------
(* Input family of the classifier *)

\* graphs of more than K33Size nodes have up to K33Size + MaxExtraNodes nodes
MaxExtraNodes == 1
\* ... and at most MaxFewEdges edges present, or at most that many missing
MaxFewEdges == 1

RECURSIVE FewOf(_, _)
FewOf(P, k) ==
    IF k = 0 THEN {{}}
    ELSE LET F == FewOf(P, k - 1) IN F \cup {E \cup {e} : E \in F, e \in P}

\* the edge sets of the graphs on 1..n: every simple graph for n <= K33Size,
\* the sparse and the nearly complete graphs for larger n
TypeEdgeSets(n) ==
    IF n <= K33Size THEN SUBSET AllPairs(1..n)
    ELSE FewOf(AllPairs(1..n), MaxFewEdges)
         \cup {AllPairs(1..n) \ M : M \in FewOf(AllPairs(1..n), MaxFewEdges)}

\* the sequence s with the elements at i and i + 1 exchanged
SwapAdjacent(s, i) ==
    [k \in 1..Len(s) |-> IF k = i THEN s[i + 1] ELSE IF k = i + 1 THEN s[i] ELSE s[k]]

InitType ==
    /\ MinorIdle /\ TypeIdle /\ SvgIdle /\ ApiIdle
    /\ pc = "idle"

\* a call of get_kuratowski_type(graph)
Classify ==
    /\ pc = "idle"
    /\ \E n \in 0..(K33Size + MaxExtraNodes) : \E E \in TypeEdgeSets(n) :
          /\ graph' = GraphOn(1..n, E)
          /\ labels' = <<get_kuratowski_type(GraphOn(1..n, E))>>
    /\ pc' = "classified"
    /\ UNCHANGED <<minorVars, svgVars, apiVars>>

\* the same graph (same nodes, same edges) built in another insertion
\* order, two neighbours of the iteration order having changed places, is
\* classified in its turn
ClassifyReordered ==
    /\ pc = "classified"
    /\ \E i \in 1..(Len(graph.nodes) - 1) :
          LET reordered == [graph EXCEPT !.nodes = SwapAdjacent(graph.nodes, i)]
          IN  /\ graph' = reordered
              /\ labels' = Append(labels, get_kuratowski_type(reordered))
    /\ pc' = "reclassified"
    /\ UNCHANGED <<minorVars, svgVars, apiVars>>

NextType == Classify \/ ClassifyReordered

SpecType == InitType /\ [][NextType]_vars

----------------------------------------------------------------------------
(* Properties of the classifier *)

\* every pair of distinct nodes is joined
IsCompleteGraph(G) ==
    \A a \in Range(G.nodes), b \in Range(G.nodes) : a # b => {a, b} \in G.edges

\* every edge joins a node of S to a node outside S
IsBipartition(G, S) == \A e \in G.edges : Cardinality(e \cap S) = 1

IsBipartiteGraph(G) == \E S \in SUBSET Range(G.nodes) : IsBipartition(G, S)

\* no part of the nodes is cut off from the rest
IsConnectedGraph(G) ==
    /\ G.nodes # <<>>
    /\ \A S \in SUBSET Range(G.nodes) :
          S # {} /\ S # Range(G.nodes) =>
              \E e \in G.edges : e \cap S # {} /\ e \ S # {}

\* the bipartition is available when the graph is connected (it is then
\* the only one); it has two classes of three
HasBipartition33(G) ==
    /\ IsConnectedGraph(G)
    /\ \E S \in SUBSET Range(G.nodes) :
          /\ IsBipartition(G, S)
          /\ Cardinality(S) = 3
          /\ Cardinality(Range(G.nodes) \ S) = 3

\* the five rules, in priority order
RuleLabel(G) ==
    LET n == Cardinality(Range(G.nodes)) IN
    IF n = 5 /\ IsCompleteGraph(G) THEN "K_5"
    ELSE IF n = 6 /\ IsBipartiteGraph(G) /\ HasBipartition33(G) THEN "K_3,3"
    ELSE IF n >= 5 /\ IsCompleteGraph(G) THEN "K_5 Subdivision"
    ELSE IF n >= 6 /\ IsBipartiteGraph(G) THEN "K_3,3 Subdivision"
    ELSE "Kuratowski Minor"

C5_OrderIndependent ==
    pc = "reclassified" => labels[1] = labels[2]

\* the reordered graph is coloured from a node of the other class, so the
\* two classes returned by bipartite.sets are exchanged; both calls
\* compared the class sizes and returned K_3,3
C5_Witness ==
    /\ pc = "reclassified"
    /\ labels = <<"K_3,3", "K_3,3">>
    /\ bipartite_sets(graph).ok
    /\ bipartite_sets(graph).X
         = bipartite_sets(GraphOn(Range(graph.nodes), graph.edges)).Y

\* the complete bipartite graph K3,3: 6 nodes in two classes of 3, the 9
\* pairs across the classes joined and no pair inside a class
IsCompleteBipartite33(G) ==
    /\ Cardinality(Range(G.nodes)) = 6
    /\ \E S \in SUBSET Range(G.nodes) :
          /\ Cardinality(S) = 3
          /\ G.edges = K33Edges(S, Range(G.nodes) \ S)

\* C11: get_kuratowski_type returns K_3,3 for a simple graph exactly when
\* the graph is the complete bipartite graph K3,3 (6 nodes, two classes of
\* 3, all 9 cross edges, no edge inside a class).
C11_K33OnlyForCompleteBipartite ==
    pc \in {"classified", "reclassified"} =>
        (labels[Len(labels)] = "K_3,3" <=> IsCompleteBipartite33(graph))

\* a connected bipartite graph on 6 nodes with classes of 3 and 3 that
\* lacks a cross edge was labelled K_3,3
C11_Witness ==
    /\ pc = "classified"
    /\ labels = <<"K_3,3">>
    /\ Cardinality(graph.edges) < 9

----------------------------------------------------------------------------
(* graph_to_svg (src/api/app.py) *)

\* the padding, in hundredths of the larger dimension: max(w, h) * 0.12
PaddingPercent == 12

SetMin(S) == CHOOSE x \in S : \A y \in S : x <= y
SetMax(S) == CHOOSE x \in S : \A y \in S : y <= x

\* _normalize_positions: <<min_x, min_y, width, height>>; a zero span is
\* replaced by 1, the empty map gives xs = ys = [0]
normalize_positions(pos) ==
    LET xs == IF DOMAIN pos # {} THEN {pos[n][1] : n \in DOMAIN pos} ELSE {0}
        ys == IF DOMAIN pos # {} THEN {pos[n][2] : n \in DOMAIN pos} ELSE {0}
        min_x == SetMin(xs)
        max_x == SetMax(xs)
        min_y == SetMin(ys)
        max_y == SetMax(ys)
        width == IF max_x # min_x THEN max_x - min_x ELSE 1
        height == IF max_y # min_y THEN max_y - min_y ELSE 1
    IN  <<min_x, min_y, width, height>>

\* a viewBox whose size leaves the padding out
ViewBoxUnpaddedSize(pos) ==
    LET np == normalize_positions(pos)
        padding == (IF np[3] >= np[4] THEN np[3] ELSE np[4]) * PaddingPercent
    IN  [vb_min_x |-> 100 * np[1] - padding,
         vb_min_y |-> 100 * np[2] - padding,
         vb_w |-> 100 * np[3],
         vb_h |-> 100 * np[4]]

\* the viewBox attribute, every number in hundredths of a coordinate unit:
\* padding = max(w, h) * 0.12; vb_min = min - padding; vb_size = size + 2 * padding
ViewBox(pos) ==
    LET np == normalize_positions(pos)
        padding == (IF np[3] >= np[4] THEN np[3] ELSE np[4]) * PaddingPercent
    IN  [vb_min_x |-> 100 * np[1] - padding,
         vb_min_y |-> 100 * np[2] - padding,
         vb_w |-> 100 * np[3] + 2 * padding,
         vb_h |-> 100 * np[4] + 2 * padding]

\* tuple(sorted(e))
SortedPair(e) == IF e[1] <= e[2] THEN e ELSE <<e[2], e[1]>>

\* highlight_edges = {tuple(sorted(e)) for e in highlight_edges}
normalize_highlight(H) == {SortedPair(e) : e \in H}

\* G.edges(): each edge once, as (u, v) with u before v in iteration order
RECURSIVE edges_seq(_, _)
edges_seq(G, i) ==
    IF i > Len(G.nodes) THEN <<>>
    ELSE LET u == G.nodes[i]
             later == SelectSeq(SubSeq(G.nodes, i, Len(G.nodes)),
                                LAMBDA v : {u, v} \in G.edges)
         IN  [k \in 1..Len(later) |-> <<u, later[k]>>] \o edges_seq(G, i + 1)

\* the pairs of a set as a sequence (the iteration order of the set)
RECURSIVE PairSeq(_)
PairSeq(H) ==
    IF H = {} THEN <<>>
    ELSE LET m == CHOOSE e \in H : \A f \in H :
                     e[1] < f[1] \/ (e[1] = f[1] /\ e[2] <= f[2])
         IN  <<m>> \o PairSeq(H \ {m})

\* a <line> element; key is the sorted pair of the nodes it joins
Line(pos, e, highlighted) ==
    [x1 |-> pos[e[1]][1], y1 |-> pos[e[1]][2],
     x2 |-> pos[e[2]][1], y2 |-> pos[e[2]][2],
     stroke |-> IF highlighted THEN "highlight_color" ELSE "edge_color",
     width |-> IF highlighted THEN 4 ELSE 2,
     key |-> SortedPair(e)]

\* first loop: the edges of G with both ends placed and not highlighted
NormalLines(G, pos, hl) ==
    LET drawn == SelectSeq(edges_seq(G, 1),
                     LAMBDA e : /\ e[1] \in DOMAIN pos /\ e[2] \in DOMAIN pos
                                /\ SortedPair(e) \notin hl)
    IN  [k \in 1..Len(drawn) |-> Line(pos, drawn[k], FALSE)]

\* second loop: for e in highlight_edges, drawn when both ends are placed
HighlightLines(G, pos, hl) ==
    LET drawn == SelectSeq(PairSeq(hl),
                     LAMBDA e : e[1] \in DOMAIN pos /\ e[2] \in DOMAIN pos)
    IN  [k \in 1..Len(drawn) |-> Line(pos, drawn[k], TRUE)]

\* third loop: a <circle> for every node of G that has a position
NodeCircles(G, pos) ==
    LET drawn == SelectSeq(G.nodes, LAMBDA n : n \in DOMAIN pos)
    IN  [k \in 1..Len(drawn) |->
            [cx |-> pos[drawn[k]][1], cy |-> pos[drawn[k]][2], r |-> 18,
             node |-> drawn[k]]]

----------------------------------------------------------------------------
(* The renderer's calls *)

\* the rendered graphs have the nodes 1..SvgNodes
SvgNodes == 3
\* at most MaxHighlight pairs are highlighted
MaxHighlight == 2
\* coordinates are the integers -1..MaxCoord
MaxCoord == 1

Coords == (-1)..MaxCoord

NodePairs == {<<u, v>> : u \in 1..SvgNodes, v \in 1..SvgNodes} \ {<<u, u>> : u \in 1..SvgNodes}

InitSvg ==
    /\ MinorIdle /\ TypeIdle /\ SvgIdle /\ ApiIdle
    /\ pc = "idle"

\* graph_to_svg(G, pos, highlight_edges) returns the document
Render(G, pos, H) ==
    LET hl == normalize_highlight(H) IN
    /\ svg_args' = [G |-> G, pos |-> pos, highlight_edges |-> H]
    /\ viewBox' = ViewBox(pos)
    /\ lines' = NormalLines(G, pos, hl) \o HighlightLines(G, pos, hl)
    /\ circles' = NodeCircles(G, pos)

\* a call with any graph on 1..SvgNodes, any subset of its nodes placed (at
\* distinct points) and up to MaxHighlight highlighted pairs, edges or not,
\* in either orientation
RenderHighlighted ==
    /\ pc = "idle"
    /\ \E E \in SUBSET AllPairs(1..SvgNodes), P \in SUBSET (1..SvgNodes),
          H \in FewOf(NodePairs, MaxHighlight) :
          Render(GraphOn(1..SvgNodes, E), [n \in P |-> <<n, n * n>>], H)
    /\ pc' = "done"
    /\ UNCHANGED <<minorVars, typeVars, apiVars>>

\* a call with any positions: nodes of the graph or not, placed or not
RenderPlaced ==
    /\ pc = "idle"
    /\ \E n \in 0..SvgNodes, P \in SUBSET (1..SvgNodes) :
          \E pos \in [P -> Coords \X Coords] :
              Render(GraphOn(1..n, AllPairs(1..n)), pos, {})
    /\ pc' = "done"
    /\ UNCHANGED <<minorVars, typeVars, apiVars>>

NextSvg == RenderHighlighted \/ RenderPlaced

SpecSvg == InitSvg /\ [][NextSvg]_vars

----------------------------------------------------------------------------
(* Properties of the renderer *)

\* the edges of G with both ends placed
PlacedEdges(G, pos) ==
    {SortedPair(<<G.nodes[i], G.nodes[j]>>) :
        <<i, j>> \in {ij \in (1..Len(G.nodes)) \X (1..Len(G.nodes)) :
                        /\ ij[1] < ij[2]
                        /\ {G.nodes[ij[1]], G.nodes[ij[2]]} \in G.edges
                        /\ G.nodes[ij[1]] \in DOMAIN pos
                        /\ G.nodes[ij[2]] \in DOMAIN pos}}

\* C6: the lines emitted are exactly the edges of G whose two ends have
\* positions, each drawn once and highlighted iff its sorted pair is in the
\* highlight set; no line is drawn for a highlighted pair that is not an
\* edge of G.
C6_LinesAreEdges ==
    pc = "done" =>
        LET G == svg_args.G
            pos == svg_args.pos
            hl == normalize_highlight(svg_args.highlight_edges)
        IN  /\ \A k \in 1..Len(lines) : lines[k].key \in PlacedEdges(G, pos)
            /\ \A e \in PlacedEdges(G, pos) :
                  /\ Cardinality({k \in 1..Len(lines) : lines[k].key = e}) = 1
                  /\ \A k \in 1..Len(lines) :
                        lines[k].key = e =>
                            (lines[k].stroke = "highlight_color" <=> e \in hl)

\* what does hold: the edges are drawn as the claim says, and every other
\* line is a highlighted pair with both ends placed that is no edge of G
C6_Witness ==
    /\ pc = "done"
    /\ \E k \in 1..Len(lines) :
          /\ lines[k].stroke = "highlight_color"
          /\ ~has_edge(svg_args.G, lines[k].key[1], lines[k].key[2])

\* C7: every circle's centre lies in the viewBox rectangle, which is the
\* bounding box of all the positions supplied (a zero span replaced by 1)
\* padded on every side by 12% of the larger dimension.  The viewBox is in
\* hundredths of a coordinate unit.
C7_CirclesInsideViewBox ==
    pc = "done" =>
        LET pos == svg_args.pos
            xs == IF DOMAIN pos = {} THEN {0} ELSE {pos[n][1] : n \in DOMAIN pos}
            ys == IF DOMAIN pos = {} THEN {0} ELSE {pos[n][2] : n \in DOMAIN pos}
            w == IF Cardinality(xs) = 1 THEN 1 ELSE SetMax(xs) - SetMin(xs)
            h == IF Cardinality(ys) = 1 THEN 1 ELSE SetMax(ys) - SetMin(ys)
            larger == IF w >= h THEN w ELSE h
        IN  /\ \A k \in 1..Len(circles) :
                  /\ viewBox.vb_min_x <= 100 * circles[k].cx
                  /\ 100 * circles[k].cx <= viewBox.vb_min_x + viewBox.vb_w
                  /\ viewBox.vb_min_y <= 100 * circles[k].cy
                  /\ 100 * circles[k].cy <= viewBox.vb_min_y + viewBox.vb_h
            /\ viewBox.vb_min_x = 100 * SetMin(xs) - 12 * larger
            /\ viewBox.vb_min_y = 100 * SetMin(ys) - 12 * larger
            /\ viewBox.vb_w = 100 * w + 24 * larger
            /\ viewBox.vb_h = 100 * h + 24 * larger

\* circles at both ends of the x range, all on one y (a zero span)
C7_Witness ==
    /\ pc = "done"
    /\ Len(circles) >= 2
    /\ \E j \in 1..Len(circles), k \in 1..Len(circles) :
          /\ circles[j].cx < circles[k].cx
          /\ \A i \in 1..Len(circles) :
                /\ circles[j].cx <= circles[i].cx
                /\ circles[i].cx <= circles[k].cx
                /\ circles[i].cy = circles[j].cy
    /\ viewBox.vb_h > viewBox.vb_w - 100

----------------------------------------------------------------------------
(* The /planarity endpoint: planarity_api and visualize_planarity_test of   *)
(* src/api/app.py (entry "api/app.py") and of src/app.py (entry "app.py").  *)
(* A string is a sequence of tokens, so that formatting is concatenation    *)
(* and str.replace removes a token; None is a value of its own.  A JSON     *)
(* number is [t |-> "num", v |-> n], a JSON string [t |-> "str", v |-> s].  *)

None == <<"None">>

Num(n) == [t |-> "num", v |-> n]
Text(x) == [t |-> "str", v |-> x]

\* str.replace(old, ""): the token old is removed
Replace(str, old) == SelectSeq(str, LAMBDA tok : tok # old)

\* the comprehensions of the try block: edges first, then pos; the
\* exception raised by the first entry that cannot be read, if any
KeyErrorInEdges(d) ==
    \E i \in 1..Len(d.edges) : ~({"source", "target"} \subseteq DOMAIN d.edges[i])

KeyErrorInNodes(d) ==
    \E i \in 1..Len(d.nodes) : ~({"id", "x", "y"} \subseteq DOMAIN d.nodes[i])

\* float(n['x']), float(n['y']) of a non-numeric string: ValueError
ValueErrorInNodes(d) ==
    \E i \in 1..Len(d.nodes) :
        /\ {"id", "x", "y"} \subseteq DOMAIN d.nodes[i]
        /\ (d.nodes[i].x.t # "num" \/ d.nodes[i].y.t # "num")

\* src/api/app.py: pos converts with float(), and except Exception catches
\* every error
ParseErrorSvg(d) ==
    IF KeyErrorInEdges(d) THEN <<"KeyError">>
    ELSE IF KeyErrorInNodes(d) THEN <<"KeyError">>
    ELSE IF ValueErrorInNodes(d) THEN <<"ValueError">>
    ELSE None

\* src/app.py: pos keeps n['x'], n['y'] as they are, and only KeyError and
\* TypeError are caught
ParseErrorPng(d) ==
    IF KeyErrorInEdges(d) THEN <<"KeyError">>
    ELSE IF KeyErrorInNodes(d) THEN <<"KeyError">>
    ELSE None

\* G = nx.Graph(); G.add_edges_from(edges)
RECURSIVE add_edges_from(_, _, _)
add_edges_from(G, edges, i) ==
    IF i > Len(edges) THEN G
    ELSE add_edges_from(add_edge(G, edges[i].source, edges[i].target), edges, i + 1)

\* the request's node identifiers are 1..n for n <= ApiNodes
ApiNodes == 6
\* the subdivisions of K5 and of K3,3 on nodes among 1..ApiNodes
KuratowskiGraphs ==
    Subdivisions(
        {AllPairs(B) : B \in {X \in SUBSET (1..ApiNodes) : Cardinality(X) = 5}}
        \cup {K33Edges(A, B) : <<A, B>> \in
                {P \in (SUBSET (1..ApiNodes)) \X (SUBSET (1..ApiNodes)) :
                    /\ Cardinality(P[1]) = 3 /\ Cardinality(P[2]) = 3
                    /\ P[1] \cap P[2] = {}}},
        1..ApiNodes, ApiNodes)

\* nx.check_planarity(G, counterexample=True): G is not planar iff it has a
\* subgraph that is a subdivision of K5 or K3,3 (Kuratowski), and the
\* counterexample returned is one of them; which one is networkx's choice.
\* The result is [is_planar, counterexample]; for a planar graph the second
\* component is an embedding, never used, and the field is left out
KuratowskiSubgraphs(G) == {H \in KuratowskiGraphs : H \subseteq G.edges}

TitleOf(is_planar) ==
    IF is_planar THEN <<"Graph is Planar">>
    ELSE <<"Graph is NON-Planar (Kuratowski Counterexample Found)">>

\* [tuple(sorted(e)) for e in counterexample_graph.edges()]
KuratowskiEdges(C) ==
    LET es == edges_seq(C, 1) IN [k \in 1..Len(es) |-> SortedPair(es[k])]

\* visualize_kuratowski_minor (src/app.py) with every title in the
\* "Minimal Minor" form
MinorTitlePlain(minor) == <<"Minimal Minor: ", get_kuratowski_type(minor)>>

\* visualize_kuratowski_minor (src/app.py): the title it returns
MinorTitle(minor) ==
    LET kuratowski_type == get_kuratowski_type(minor) IN
    IF kuratowski_type = "K_5" THEN <<"Minimal Kuratowski Minor: ", "K_5">>
    ELSE IF kuratowski_type = "K_3,3" THEN <<"Minimal Kuratowski Minor: ", "K_3,3">>
    ELSE <<"Minimal Minor: ", kuratowski_type>>

\* visualize_planarity_test of src/api/app.py after parsing: the 6-tuple
\* (svg_original, svg_subdivision, svg_minor, title, kuratowski_type,
\* kuratowski_edges)
VisualizeSvg(chk) ==
    IF ~chk.is_planar /\ "counterexample" \in DOMAIN chk
    THEN LET kuratowski_minor == get_kuratowski_minor(chk.counterexample)
             kuratowski_type == get_kuratowski_type(kuratowski_minor)
         IN  << <<"svg", "original">>, <<"svg", "subdivision">>,
                <<"svg", "Minimal Kuratowski Minor: ", kuratowski_type>>,
                TitleOf(chk.is_planar), <<kuratowski_type>>,
                KuratowskiEdges(chk.counterexample) >>
    ELSE << <<"svg", "original">>, None, None, TitleOf(chk.is_planar), None, <<>> >>

\* visualize_planarity_test of src/app.py after parsing: the 5-tuple
\* (img_original, img_subdivision, img_minor, title, kuratowski_type)
VisualizePng(chk) ==
    IF ~chk.is_planar
    THEN LET kuratowski_minor == get_kuratowski_minor(chk.counterexample)
             minor_title == MinorTitle(kuratowski_minor)
         IN  << <<"png", "original">>,
                <<"png", "Intermediate Subdivision: ",
                  get_kuratowski_type(chk.counterexample)>>,
                <<"png">> \o minor_title,
                TitleOf(chk.is_planar),
                Replace(minor_title, "Minimal Kuratowski Minor: ") >>
    ELSE << <<"png", "original">>, None, None, TitleOf(chk.is_planar), None >>

\* the except branch of visualize_planarity_test
ParseFailureSvg(err) ==
    <<None, None, None, None, <<"Data parsing error: ">> \o err, None>>

ParseFailurePng(err) ==
    <<None, None, None,
      <<"Data parsing error: Missing key or incorrect type. Details: ">> \o err, None>>

InvalidInput ==
    [status |-> 400,
     error |-> <<"Invalid input format. Expected JSON with 'nodes' and 'edges'.">>]

\* planarity_api of src/api/app.py: the response made from the tuple
\* svg_original_b, svg_sub_b, svg_minor_b, result_title, kuratowski_type,
\* kuratowski_edges
ResponseSvg(r) ==
    IF r[1] = None THEN [status |-> 400, error |-> r[4]]
    ELSE [status |-> 200, title |-> r[4], is_planar |-> (r[2] = None),
          kuratowski_type |-> r[5], kuratowski_edges |-> r[6],
          image_original |-> r[1], image_subdivision |-> r[2], image_minor |-> r[3]]

\* planarity_api of src/app.py: the response made from the tuple
\* img_original, img_subdivision, img_minor, result_title, kuratowski_type
ResponsePng(r) ==
    IF r[1] = None THEN [status |-> 400, error |-> r[4]]
    ELSE [status |-> 200, title |-> r[4], is_planar |-> (r[2] = None),
          kuratowski_type |-> r[5],
          image_original |-> r[1], image_subdivision |-> r[2], image_minor |-> r[3]]

----------------------------------------------------------------------------
(* The requests *)

Entries == {"api/app.py", "app.py"}

\* the ways one entry of the payload is malformed
Malformations ==
    {"none", "node without id", "node without x", "node without y",
     "node with text x", "edge without source", "edge without target"}

\* the "nodes" list for the nodes 1..n, the first entry malformed as bad says
NodeList(n, bad) ==
    [i \in 1..n |->
        IF i # 1 \/ bad \notin {"node without id", "node without x",
                                "node without y", "node with text x"}
        THEN [id |-> i, x |-> Num(i), y |-> Num(i * i)]
        ELSE IF bad = "node without id" THEN [x |-> Num(i), y |-> Num(i * i)]
        ELSE IF bad = "node without x" THEN [id |-> i, y |-> Num(i * i)]
        ELSE IF bad = "node without y" THEN [id |-> i, x |-> Num(i)]
        ELSE [id |-> i, x |-> Text("abc"), y |-> Num(i * i)]]

\* the "edges" list for the edge set E, the first entry malformed as bad says
EdgeList(E, bad) ==
    LET es == PairSeq({p \in (UNION E) \X (UNION E) : p[1] < p[2] /\ {p[1], p[2]} \in E})
    IN  [i \in 1..Len(es) |->
            IF i = 1 /\ bad = "edge without source" THEN [target |-> es[i][2]]
            ELSE IF i = 1 /\ bad = "edge without target" THEN [source |-> es[i][1]]
            ELSE [source |-> es[i][1], target |-> es[i][2]]]

\* the payload has an entry that cannot be read
HasMalformedEntry(d) ==
    KeyErrorInEdges(d) \/ KeyErrorInNodes(d) \/ ValueErrorInNodes(d)

InitApi ==
    /\ MinorIdle /\ TypeIdle /\ SvgIdle /\ ApiIdle
    /\ pc = "idle"

\* a POST /planarity arrives at one of the entry points: the complete graph
\* on 1..n, every node listed, one entry possibly malformed
Request ==
    /\ pc = "idle"
    /\ entry' \in Entries
    /\ \E n \in 3..ApiNodes, bad \in Malformations :
          data' = [keys |-> {"nodes", "edges"},
                   nodes |-> NodeList(n, bad),
                   edges |-> EdgeList(AllPairs(1..n), bad)]
    /\ pc' = "received"
    /\ UNCHANGED <<check, ret, response, minorVars, typeVars, svgVars>>

\* a well-formed POST /planarity whose graph is a subdivision of K5 or K3,3
\* (not planar), or one of these less one of its edges (planar)
RequestKuratowski ==
    /\ pc = "idle"
    /\ entry' \in Entries
    /\ \E H \in KuratowskiGraphs :
          \E E \in {H, H \ {CHOOSE e \in H : TRUE}} :
              data' = [keys |-> {"nodes", "edges"},
                       nodes |-> NodeList(ApiNodes, "none"),
                       edges |-> EdgeList(E, "none")]
    /\ pc' = "received"
    /\ UNCHANGED <<check, ret, response, minorVars, typeVars, svgVars>>

\* a POST /planarity whose JSON lacks a key, or is empty
RequestWithoutKeys ==
    /\ pc = "idle"
    /\ entry' \in Entries
    /\ \E ks \in (SUBSET {"nodes", "edges"}) \ {{"nodes", "edges"}} :
          data' = [keys |-> ks, nodes |-> <<>>, edges |-> <<>>]
    /\ pc' = "received"
    /\ UNCHANGED <<check, ret, response, minorVars, typeVars, svgVars>>

\* if not data or 'nodes' not in data or 'edges' not in data: 400
RejectInvalid ==
    /\ pc = "received"
    /\ ~({"nodes", "edges"} \subseteq data.keys)
    /\ response' = InvalidInput
    /\ pc' = "responded"
    /\ UNCHANGED <<entry, data, check, ret, minorVars, typeVars, svgVars>>

\* the try block raised: visualize_planarity_test returns its failure tuple
\* and planarity_api answers from it
RespondParseFailure ==
    /\ pc = "received"
    /\ {"nodes", "edges"} \subseteq data.keys
    /\ \/ /\ entry = "api/app.py"
          /\ ParseErrorSvg(data) # None
          /\ ret' = ParseFailureSvg(ParseErrorSvg(data))
          /\ response' = ResponseSvg(ret')
       \/ /\ entry = "app.py"
          /\ ParseErrorPng(data) # None
          /\ ret' = ParseFailurePng(ParseErrorPng(data))
          /\ response' = ResponsePng(ret')
    /\ pc' = "responded"
    /\ UNCHANGED <<entry, data, check, minorVars, typeVars, svgVars>>

\* src/app.py hands a coordinate that is no number on to Matplotlib; what
\* the drawing calls do with it is not in the sources: the request either
\* dies in them (500) or is answered as if the coordinate were a number
DrawTextCoordinate ==
    /\ pc = "received"
    /\ {"nodes", "edges"} \subseteq data.keys
    /\ entry = "app.py"
    /\ ParseErrorPng(data) = None
    /\ ValueErrorInNodes(data)
    /\ response' = [status |-> 500]
    /\ pc' = "responded"
    /\ UNCHANGED <<entry, data, check, ret, minorVars, typeVars, svgVars>>

\* the payload was read: the planarity check, the drawings, the response
Respond ==
    /\ pc = "received"
    /\ {"nodes", "edges"} \subseteq data.keys
    /\ IF entry = "api/app.py" THEN ParseErrorSvg(data) = None
                               ELSE ParseErrorPng(data) = None
    /\ LET G == add_edges_from(EmptyGraph, data.edges, 1)
           certs == KuratowskiSubgraphs(G)
       IN  /\ \/ /\ certs = {}
                 /\ check' = [is_planar |-> TRUE]
              \/ \E H \in certs :
                    check' = [is_planar |-> FALSE,
                              counterexample |-> GraphOn(NodesOf(H), H)]
           /\ \/ /\ entry = "api/app.py"
                 /\ ret' = VisualizeSvg(check')
                 /\ response' = ResponseSvg(ret')
              \/ /\ entry = "app.py"
                 /\ ret' = VisualizePng(check')
                 /\ response' = ResponsePng(ret')
    /\ pc' = "responded"
    /\ UNCHANGED <<entry, data, minorVars, typeVars, svgVars>>

NextApi ==
    \/ Request \/ RequestKuratowski \/ RequestWithoutKeys
    \/ RejectInvalid \/ RespondParseFailure \/ DrawTextCoordinate \/ Respond

SpecApi == InitApi /\ [][NextApi]_vars

----------------------------------------------------------------------------
(* The endpoint's claims *)

ParsingErrorPrefixes ==
    {"Data parsing error: ",
     "Data parsing error: Missing key or incorrect type. Details: "}

\* a request with both keys and an entry that cannot be read was answered
MalformedAnswered ==
    /\ pc = "responded"
    /\ {"nodes", "edges"} \subseteq data.keys
    /\ HasMalformedEntry(data)

\* C8: a payload with both keys and a malformed entry (a node without id, x
\* or y or with a non-numeric coordinate, an edge without source or target)
\* is answered, by either entry point, with status 400 and an error field
\* that carries the "Data parsing error" message, and with no image, title
\* or label.
C8_MalformedEntryReported ==
    MalformedAnswered =>
        /\ response.status = 400
        /\ DOMAIN response = {"status", "error"}
        /\ response.error # None
        /\ response.error[1] \in ParsingErrorPrefixes

\* the SVG entry point answered a request whose node has a text coordinate
C8_Witness ==
    /\ MalformedAnswered
    /\ entry = "api/app.py"
    /\ ValueErrorInNodes(data)
    /\ response.status = 400

\* C9: in both entry points the kuratowski_type of a 200 response is the
\* label visualize_planarity_test returned; it is None exactly when the
\* planarity check reported planar, and for a non-planar graph it is one of
\* the five labels and is get_kuratowski_type of the reduced counterexample.
C9_LabelAbsentIffPlanar ==
    (pc = "responded" /\ response.status = 200) =>
        /\ response.kuratowski_type = ret[5]
        /\ (response.kuratowski_type = None) <=> check.is_planar
        /\ response.is_planar <=> check.is_planar
        /\ ~check.is_planar =>
              /\ response.kuratowski_type \in {<<l>> : l \in Labels}
              /\ response.kuratowski_type =
                    <<get_kuratowski_type(get_kuratowski_minor(check.counterexample))>>

\* the Matplotlib entry point answered for a non-planar graph whose
\* counterexample is a proper subdivision of K5, and reported K_5
C9_Witness ==
    /\ pc = "responded"
    /\ entry = "app.py"
    /\ response.status = 200
    /\ ~check.is_planar
    /\ number_of_nodes(check.counterexample) > K5Size
    /\ response.kuratowski_type = <<"K_5">>

====
